---- MODULE Spec2Model ----
(***************************************************************************)
(* Reverse-mode automatic differentiation of adnn: the primitive-function  *)
(* factory (ad/func.js), the built-in function library (ad/functions.js),  *)
(* the public accessors (ad/index.js) and the linear layer's mvmuladd      *)
(* (nn/networks/linear.js).                                                *)
(*                                                                         *)
(* A JavaScript value is a tagged record: a raw number Num(n), a raw       *)
(* tensor Ten(data), a reference to a graph node Ref(id), an Array         *)
(* Arr(elems), or undefined.  The graph nodes live on the tape, a sequence *)
(* in creation order; a node's id is its position.                         *)
(***************************************************************************)
EXTENDS Integers, Sequences, FiniteSets, TLC

VARIABLES
    tape,   \* the graph nodes created so far, in creation order
    call,   \* the most recent call: operation, arguments, outcome
    pass    \* the backward pass: its output node and the next node to visit

vars == <<tape, call, pass>>

(***************************************************************************)
(* Bounds of the model.                                                    *)
(***************************************************************************)
MaxTape == 3    \* nodes on the tape
MaxArgs == 3    \* arguments of a variadic call
MaxLen == 3     \* elements of an input tensor
MaxParts == 2   \* operands of a concatenation
MaxDim == 2     \* rows and columns of a weight matrix

(***************************************************************************)
(* Values.                                                                 *)
(***************************************************************************)
Num(n) == [t |-> "num", n |-> n]
Ten(d) == [t |-> "tensor", dims |-> <<Len(d)>>, data |-> d]
Mat(rows, cols, d) == [t |-> "tensor", dims |-> <<rows, cols>>, data |-> d]
Ref(i) == [t |-> "node", id |-> i]
Arr(e) == [t |-> "array", elems |-> e]
Undefined == [t |-> "undefined"]
Thrown == [t |-> "thrown"]   \* what a formula that failed an assert yields

\* Tensor.length, the number of elements.
Length(x) == Len(x.data)

isNode(v) == v.t = "node"

isLifted(v) == isNode(v)

value(tp, v) == IF isNode(v) THEN tp[v.id].x ELSE v

derivative(tp, v) == IF isNode(v) THEN tp[v.id].dx ELSE Undefined

\* The outcome of a call: the tape after it, what it returned, and whether
\* it returned ("ok") or threw ("error").
Ret(tp, v) == [tape |-> tp, result |-> v, status |-> "ok"]
Throw(tp) == [tape |-> tp, result |-> Undefined, status |-> "error"]

(***************************************************************************)
(* Graph nodes.  dx starts as the zero of x's shape.                       *)
(***************************************************************************)
Zeros(n) == [i \in 1..n |-> 0]

ZeroOf(x) == IF x.t = "tensor" THEN Ten(Zeros(Len(x.data))) ELSE Num(0)

Node(x, name, shape, ctor, parents, args) ==
    [x |-> x, dx |-> ZeroOf(x), name |-> name, shape |-> shape,
     ctor |-> ctor, parents |-> parents, args |-> args]

UnaryNode(x, parent, name, ctor, args) ==
    Node(x, name, "unary", ctor, <<parent.id>>, args)

BinaryNode(x, parent1, parent2, name, ctor, args) ==
    Node(x, name, "binary", ctor, <<parent1.id, parent2.id>>, args)

NaryNode(x, parents, name, ctor, args) ==
    Node(x, name, "nary", ctor, [i \in 1..Len(parents) |-> parents[i].id], args)

doLift(x, name) == Node(x, name, "leaf", "lift", <<>>, <<>>)

lift(tp, x, name) ==
    IF isNode(x) THEN Ret(tp, x)
    ELSE Ret(Append(tp, doLift(x, name)), Ref(Len(tp) + 1))

New(tp, node) == Ret(Append(tp, node), Ref(Len(tp) + 1))

(***************************************************************************)
(* Calling convention of the variadic operations: one Array argument is    *)
(* the list of operands, otherwise the arguments are.                      *)
(***************************************************************************)
ArgList(args) ==
    IF Len(args) = 1 /\ args[1].t = "array" THEN args[1].elems ELSE args

\* The loop of naryGetParents: n counts down from the last operand, each
\* Node met is pushed onto p.
RECURSIVE naryGetParentsLoop(_, _, _)
naryGetParentsLoop(list, n, p) ==
    IF n = 0 THEN p
    ELSE naryGetParentsLoop(list, n - 1,
            IF isNode(list[n]) THEN Append(p, list[n]) ELSE p)

\* The same loop counting up: parents in argument order.
RECURSIVE ForwardParentsLoop(_, _, _)
ForwardParentsLoop(list, n, p) ==
    IF n > Len(list) THEN p
    ELSE ForwardParentsLoop(list, n + 1,
            IF isNode(list[n]) THEN Append(p, list[n]) ELSE p)

naryGetParentsInOrder(args) == ForwardParentsLoop(ArgList(args), 1, <<>>)

naryGetParents(args) ==
    LET list == ArgList(args) IN naryGetParentsLoop(list, Len(list), <<>>)

\* getParents of tensorEntry and tensor.range: the first argument, if lifted.
firstGetParents(args) == IF isNode(args[1]) THEN <<args[1]>> ELSE <<>>

getParents(name, args) ==
    IF name \in {"tensorEntry", "tensor.range"} THEN firstGetParents(args)
    ELSE naryGetParents(args)

(***************************************************************************)
(* Forward formulas of the unary and binary operators: raw in, raw out.    *)
(***************************************************************************)
Abs(n) == IF n < 0 THEN -n ELSE n

forward1(name, x) == Num(Abs(x.n))     \* scalar.abs

forward2(name, x, y) ==
    IF name = "scalar.sub" THEN Num(x.n - y.n) ELSE Num(x.n * y.n)

(***************************************************************************)
(* Tensor storage: data is a typed array.  An element index is 0-based in  *)
(* the code and 1-based here; a write past the end is dropped.             *)
(***************************************************************************)
AddAt(data, i, d) ==
    IF i + 1 \in 1..Len(data) THEN [data EXCEPT ![i + 1] = @ + d] ELSE data

\* t.copy(tn, i): tn's elements written into t from offset i on.
copy(data, tn, i) ==
    [k \in 1..Len(data) |->
        IF k - i \in 1..Len(tn) THEN tn[k - i] ELSE data[k]]

AddScalarDx(tp, id, d) == [tp EXCEPT ![id].dx = Num(@.n + d)]

AddTensorDx(tp, id, i, d) ==
    [tp EXCEPT ![id].dx = [@ EXCEPT !.data = AddAt(@, i, d)]]

(***************************************************************************)
(* Forward formulas of the operations built with newFunction.  They get    *)
(* the arguments as passed, Nodes included, and unwrap them themselves.    *)
(***************************************************************************)
RECURSIVE sumForwardLoop(_, _, _, _)
sumForwardLoop(tp, list, n, thesum) ==
    IF n = 0 THEN thesum
    ELSE sumForwardLoop(tp, list, n - 1, thesum + value(tp, list[n]).n)

sumForward(tp, args) ==
    LET list == ArgList(args) IN Num(sumForwardLoop(tp, list, Len(list), 0))

tensorEntryForward(tp, args) == Num(value(tp, args[1]).data[args[2].n + 1])

rangeForward(tp, args) ==
    LET t == value(tp, args[1])
        start == args[2].n
        n == args[3].n - start
    IN  Ten([k \in 1..n |-> t.data[start + k]])

scalarsToTensorForward(tp, args) ==
    LET list == ArgList(args)
    IN  Ten([k \in 1..Len(list) |-> value(tp, list[k]).n])

RECURSIVE concatSizeLoop(_, _, _, _)
concatSizeLoop(tp, list, n, size) ==
    IF n = 0 THEN size
    ELSE concatSizeLoop(tp, list, n - 1, size + Length(value(tp, list[n])))

RECURSIVE concatCopyLoop(_, _, _, _, _)
concatCopyLoop(tp, list, j, i, data) ==
    IF j > Len(list) THEN data
    ELSE LET tn == value(tp, list[j])
         IN  concatCopyLoop(tp, list, j + 1, i + Length(tn),
                            copy(data, tn.data, i))

concatForward(tp, args) ==
    LET list == ArgList(args)
        size == concatSizeLoop(tp, list, Len(list), 0)
    IN  Ten(concatCopyLoop(tp, list, 1, 0, Zeros(size)))

(***************************************************************************)
(* mvmuladd of the linear layer: y = A x + b.  A read past the end of      *)
(* A.data yields undefined, which arithmetic turns into NaN.               *)
(***************************************************************************)
NaN == -999

ReadAt(data, i) == IF i + 1 \in 1..Len(data) THEN data[i + 1] ELSE NaN

JsAdd(a, b) == IF a = NaN \/ b = NaN THEN NaN ELSE a + b

JsMul(a, b) == IF a = NaN \/ b = NaN THEN NaN ELSE a * b

\* The inner loop over the columns c of row r, y.data[r] so far being acc.
RECURSIVE mvmuladdRow(_, _, _, _, _, _)
mvmuladdRow(A, x, w, r, c, acc) ==
    IF c >= w THEN acc
    ELSE mvmuladdRow(A, x, w, r, c + 1,
            JsAdd(acc, JsMul(ReadAt(A.data, r * w + c), x.data[c + 1])))

mvmuladdForward(tp, args) ==
    LET A == value(tp, args[1])
        x == value(tp, args[2])
        b == value(tp, args[3])
        w == Length(x)
        h == Length(b)
    IN  IF w # A.dims[2] THEN Thrown
        ELSE Ten([r \in 1..h |-> mvmuladdRow(A, x, w, r - 1, 0, b.data[r])])

forward(name, tp, args) ==
    CASE name = "scalar.sum" -> sumForward(tp, args)
      [] name = "tensorEntry" -> tensorEntryForward(tp, args)
      [] name = "tensor.range" -> rangeForward(tp, args)
      [] name = "scalarsToTensor" -> scalarsToTensorForward(tp, args)
      [] name = "tensor.concat" -> concatForward(tp, args)
      [] name = "mvmuladd" -> mvmuladdForward(tp, args)

(***************************************************************************)
(* The factories.  Each yields the outcome of one call of the operation    *)
(* it builds.                                                              *)
(***************************************************************************)
newUnaryFunction(tp, name, x) ==
    IF isNode(x)
    THEN New(tp, UnaryNode(forward1(name, tp[x.id].x), x, name, "FnNode", <<>>))
    ELSE Ret(tp, forward1(name, x))

\* newBinaryFunction with the only-second-lifted case built as Node10.
newBinaryFunctionSecondAsFirst(tp, name, x, y) ==
    LET xIsNode == isNode(x)
        yIsNode == isNode(y)
    IN  IF xIsNode /\ yIsNode
        THEN New(tp, BinaryNode(forward2(name, tp[x.id].x, tp[y.id].x),
                                x, y, name, "Node11", <<>>))
        ELSE IF xIsNode
        THEN New(tp, UnaryNode(forward2(name, tp[x.id].x, y),
                               x, name, "Node10", <<y>>))
        ELSE IF yIsNode
        THEN New(tp, UnaryNode(forward2(name, x, tp[y.id].x),
                               y, name, "Node10", <<x>>))
        ELSE Ret(tp, forward2(name, x, y))

newBinaryFunction(tp, name, x, y) ==
    LET xIsNode == isNode(x)
        yIsNode == isNode(y)
    IN  IF xIsNode /\ yIsNode
        THEN New(tp, BinaryNode(forward2(name, tp[x.id].x, tp[y.id].x),
                                x, y, name, "Node11", <<>>))
        ELSE IF xIsNode
        THEN New(tp, UnaryNode(forward2(name, tp[x.id].x, y),
                               x, name, "Node10", <<y>>))
        ELSE IF yIsNode
        THEN New(tp, UnaryNode(forward2(name, x, tp[y.id].x),
                               y, name, "Node01", <<x>>))
        ELSE Ret(tp, forward2(name, x, y))

\* newFunction without the n = 0 case: a node is built for every call.
newFunctionAlwaysNode(tp, name, args) ==
    LET output == forward(name, tp, args)
        parents == getParents(name, args)
        n == Len(parents)
    IN  IF output = Thrown THEN Throw(tp)
        ELSE IF n = 2
        THEN New(tp, BinaryNode(output, parents[1], parents[2], name,
                                "BinaryFnNode", args))
        ELSE IF n = 1
        THEN New(tp, UnaryNode(output, parents[1], name, "UnaryFnNode", args))
        ELSE New(tp, NaryNode(output, parents, name, "NaryFnNode", args))

\* newFunction with n >= 2 in place of n > 2: two parents make an n-ary node.
newFunctionNaryFromTwo(tp, name, args) ==
    LET output == forward(name, tp, args)
        parents == getParents(name, args)
        n == Len(parents)
    IN  IF output = Thrown THEN Throw(tp)
        ELSE IF n = 0 THEN Ret(tp, output)
        ELSE IF n >= 2
        THEN New(tp, NaryNode(output, parents, name, "NaryFnNode", args))
        ELSE New(tp, UnaryNode(output, parents[1], name, "UnaryFnNode", args))

newFunction(tp, name, args) ==
    LET output == forward(name, tp, args) IN
    IF output = Thrown THEN Throw(tp)
    ELSE LET parents == getParents(name, args)
             n == Len(parents)
         IN  IF n = 0 THEN Ret(tp, output)
             ELSE IF n > 2
             THEN New(tp, NaryNode(output, parents, name, "NaryFnNode", args))
             ELSE IF n = 2
             THEN New(tp, BinaryNode(output, parents[1], parents[2], name,
                                     "BinaryFnNode", args))
             ELSE New(tp, UnaryNode(output, parents[1], name,
                                    "UnaryFnNode", args))

(***************************************************************************)
(* Backward formulas.  self is the node whose closure runs ("this"); each  *)
(* formula yields the tape with the contributions added.                   *)
(***************************************************************************)
\* Derivative table of the unary and binary scalar operators.
absBackward(tp, self, x) ==
    AddScalarDx(tp, x.id,
                (IF tp[x.id].x.n < 0 THEN -1 ELSE 1) * tp[self].dx.n)

backward1(tp, self, name, x, y) ==
    IF name = "scalar.sub" THEN AddScalarDx(tp, x.id, tp[self].dx.n)
    ELSE AddScalarDx(tp, x.id, y.n * tp[self].dx.n)

backward2(tp, self, name, x, y) ==
    IF name = "scalar.sub" THEN AddScalarDx(tp, y.id, -tp[self].dx.n)
    ELSE AddScalarDx(tp, y.id, x.n * tp[self].dx.n)

\* scalar.sum: every lifted summand gains this.dx.
RECURSIVE sumBackwardLoop(_, _, _, _)
sumBackwardLoop(tp, self, list, n) ==
    IF n = 0 THEN tp
    ELSE sumBackwardLoop(
            IF isNode(list[n])
            THEN AddScalarDx(tp, list[n].id, tp[self].dx.n) ELSE tp,
            self, list, n - 1)

\* scalar.sum's backward with = in place of +=.
RECURSIVE sumBackwardOverwriteLoop(_, _, _, _)
sumBackwardOverwriteLoop(tp, self, list, n) ==
    IF n = 0 THEN tp
    ELSE sumBackwardOverwriteLoop(
            IF isNode(list[n])
            THEN [tp EXCEPT ![list[n].id].dx = tp[self].dx] ELSE tp,
            self, list, n - 1)

sumBackwardOverwrite(tp, self, args) ==
    LET list == ArgList(args)
    IN  sumBackwardOverwriteLoop(tp, self, list, Len(list))

sumBackward(tp, self, args) ==
    LET list == ArgList(args) IN sumBackwardLoop(tp, self, list, Len(list))

\* tensorEntry's backward writing element 0 whatever the index.
tensorEntryBackwardFirst(tp, self, args) ==
    IF isNode(args[1])
    THEN AddTensorDx(tp, args[1].id, 0, tp[self].dx.n)
    ELSE tp

tensorEntryBackward(tp, self, args) ==
    IF isNode(args[1])
    THEN AddTensorDx(tp, args[1].id, args[2].n, tp[self].dx.n)
    ELSE tp

\* tensor.range: while (n--) { i = start + n; this.dx.data[i] += t.dx.data[n] }
RECURSIVE rangeBackwardLoop(_, _, _, _, _)
rangeBackwardLoop(tp, self, t, start, n) ==
    IF n = 0 THEN tp
    ELSE rangeBackwardLoop(
            AddTensorDx(tp, self, start + (n - 1), tp[t.id].dx.data[n]),
            self, t, start, n - 1)

rangeBackward(tp, self, args) ==
    IF isNode(args[1])
    THEN rangeBackwardLoop(tp, self, args[1], args[2].n, args[3].n - args[2].n)
    ELSE tp

\* scalarsToTensor: operand n gains this.dx.data[n].
RECURSIVE scalarsToTensorBackwardLoop(_, _, _, _)
scalarsToTensorBackwardLoop(tp, self, list, n) ==
    IF n = 0 THEN tp
    ELSE scalarsToTensorBackwardLoop(
            IF isNode(list[n])
            THEN AddScalarDx(tp, list[n].id, tp[self].dx.data[n]) ELSE tp,
            self, list, n - 1)

scalarsToTensorBackward(tp, self, args) ==
    LET list == ArgList(args)
    IN  scalarsToTensorBackwardLoop(tp, self, list, Len(list))

\* tensor.concat, inner loop: while (len--) tn.dx.data[len] += this.dx.data[i + len]
RECURSIVE concatBackwardInner(_, _, _, _, _)
concatBackwardInner(tp, self, tn, i, len) ==
    IF len = 0 THEN tp
    ELSE concatBackwardInner(
            AddTensorDx(tp, tn.id, len - 1,
                        ReadAt(tp[self].dx.data, i + (len - 1))),
            self, tn, i, len - 1)

\* tensor.concat, outer loop: n counts down from the last operand while the
\* offset i counts up from 0.
RECURSIVE concatBackwardLoop(_, _, _, _, _)
concatBackwardLoop(tp, self, list, n, i) ==
    IF n = 0 THEN tp
    ELSE LET arg == list[n] IN
         IF isNode(arg)
         THEN concatBackwardLoop(
                concatBackwardInner(tp, self, arg, i, Length(tp[arg.id].dx)),
                self, list, n - 1, i + Length(tp[arg.id].dx))
         ELSE concatBackwardLoop(tp, self, list, n - 1, i + Length(arg))

concatBackward(tp, self, args) ==
    LET list == ArgList(args)
    IN  concatBackwardLoop(tp, self, list, Len(list), 0)

backward(tp, self, name, args) ==
    CASE name = "scalar.abs" -> absBackward(tp, self, args[1])
      [] name = "scalar.sum" -> sumBackward(tp, self, args)
      [] name = "tensorEntry" -> tensorEntryBackward(tp, self, args)
      [] name = "tensor.range" -> rangeBackward(tp, self, args)
      [] name = "scalarsToTensor" -> scalarsToTensorBackward(tp, self, args)
      [] name = "tensor.concat" -> concatBackward(tp, self, args)

(***************************************************************************)
(* The backward closure bound to a node: which formulas of the descriptor  *)
(* it invokes, in order, and with which arguments.                         *)
(***************************************************************************)
Invoke(fn, args) == [fn |-> fn, args |-> args]

Invocations(tp, id) ==
    LET nd == tp[id] IN
    CASE nd.ctor = "FnNode" ->
            <<Invoke("backward", <<Ref(nd.parents[1])>>)>>
      [] nd.ctor = "Node11" ->
            <<Invoke("backward1", <<Ref(nd.parents[1]), tp[nd.parents[2]].x>>),
              Invoke("backward2", <<tp[nd.parents[1]].x, Ref(nd.parents[2])>>)>>
      [] nd.ctor = "Node10" ->
            <<Invoke("backward1", <<Ref(nd.parents[1]), nd.args[1]>>)>>
      [] nd.ctor = "Node01" ->
            <<Invoke("backward2", <<nd.args[1], Ref(nd.parents[1])>>)>>
      [] nd.ctor \in {"UnaryFnNode", "BinaryFnNode", "NaryFnNode"} ->
            <<Invoke("backward", nd.args)>>
      [] OTHER -> <<>>

ApplyFormula(tp, self, inv) ==
    CASE inv.fn = "backward1" ->
            backward1(tp, self, tp[self].name, inv.args[1], inv.args[2])
      [] inv.fn = "backward2" ->
            backward2(tp, self, tp[self].name, inv.args[1], inv.args[2])
      [] OTHER -> backward(tp, self, tp[self].name, inv.args)

RECURSIVE ApplyAll(_, _, _, _)
ApplyAll(tp, self, invs, k) ==
    IF k > Len(invs) THEN tp
    ELSE ApplyAll(ApplyFormula(tp, self, invs[k]), self, invs, k + 1)

\* node.backward()
RunBackward(tp, id) == ApplyAll(tp, id, Invocations(tp, id), 1)

(***************************************************************************)
(* tensorToScalars: s[n] = tensorEntry(t, n) for n from the last index     *)
(* down to 0.  Yields the tape after the calls and the array s.            *)
(***************************************************************************)
RECURSIVE tensorToScalarsLoop(_, _, _, _)
tensorToScalarsLoop(tp, t, n, s) ==
    IF n = 0 THEN Ret(tp, Arr(s))
    ELSE LET e == newFunction(tp, "tensorEntry", <<t, Num(n - 1)>>)
         IN  tensorToScalarsLoop(e.tape, t, n - 1, [s EXCEPT ![n] = e.result])

tensorToScalars(tp, t) ==
    LET n == Length(value(tp, t))
    IN  tensorToScalarsLoop(tp, t, n, [k \in 1..n |-> Undefined])

(***************************************************************************)
(* The backward pass: seed the output node, zero the gradient of every     *)
(* other node it reaches, then run the closures of the reached nodes in    *)
(* decreasing creation order.                                              *)
(***************************************************************************)
RECURSIVE Reached(_, _)
Reached(tp, id) ==
    {id} \cup UNION {Reached(tp, tp[id].parents[k]) :
                        k \in 1..Len(tp[id].parents)}

Below(S, id) == {j \in S : j < id}

Greatest(S) == IF S = {} THEN 0 ELSE CHOOSE j \in S : \A k \in S : k <= j

SeedAndReset(tp, o, cotangent) ==
    [id \in 1..Len(tp) |->
        IF id = o THEN [tp[id] EXCEPT !.dx = cotangent]
        ELSE IF id \in Reached(tp, o) THEN [tp[id] EXCEPT !.dx = ZeroOf(@)]
        ELSE tp[id]]

Ones(n) == [i \in 1..n |-> 1]
Iota(n) == [i \in 1..n |-> i]

Cotangents(x) ==
    IF x.t = "tensor" THEN {Ten(Ones(Length(x))), Ten(Iota(Length(x)))}
    ELSE {Num(1)}

Idle == [root |-> 0, cursor |-> 0]

(***************************************************************************)
(* Actions.                                                                *)
(***************************************************************************)
Refs == {Ref(i) : i \in 1..Len(tape)}

RawScalars == {Num(-2)}

Scalars == RawScalars \cup {r \in Refs : tape[r.id].x.t = "num"}

\* Argument lists of a variadic call, in both calling forms.
Lists(S) == UNION {[1..n -> S] : n \in 1..MaxArgs}

VarArgs(S) == Lists(S) \cup {<<Arr(l)>> : l \in Lists(S) \cup {<<>>}}

\* The same for tensor.concat, whose operands are tensors.
PartLists(S) == UNION {[1..n -> S] : n \in 1..MaxParts}

Parts(S) == PartLists(S) \cup {<<Arr(l)>> : l \in PartLists(S)}

\* A call of the client program.  The forward evaluation comes first: once a
\* backward pass has been started the tape is complete.
Called(op, args, out) ==
    LET o == out IN
    /\ pass = Idle
    /\ Len(tape) < MaxTape
    /\ tape' = o.tape
    /\ call' = [op |-> op, args |-> args, result |-> o.result,
                status |-> o.status, invoked |-> <<>>]
    /\ UNCHANGED pass

Lift ==
    \E x \in RawScalars :
        Called("lift", <<x>>, lift(tape, x, "x"))

CallUnary ==
    \E x \in Scalars :
        Called("scalar.abs", <<x>>, newUnaryFunction(tape, "scalar.abs", x))

CallBinary ==
    \E name \in {"scalar.sub", "scalar.mul"} : \E x \in Scalars, y \in Scalars :
        Called(name, <<x, y>>, newBinaryFunction(tape, name, x, y))

CallSum ==
    \E args \in VarArgs(Scalars) :
        Called("scalar.sum", args, newFunction(tape, "scalar.sum", args))

\* Reading a gradient, between passes.
Derivative ==
    /\ pass.cursor = 0
    /\ \E v \in Scalars :
        call' = [op |-> "derivative", args |-> <<v>>,
                 result |-> derivative(tape, v), status |-> "ok",
                 invoked |-> <<>>]
    /\ UNCHANGED <<tape, pass>>

StartBackward ==
    /\ pass.cursor = 0
    /\ \E o \in 1..Len(tape) : \E c \in Cotangents(tape[o].x) :
        /\ tape' = SeedAndReset(tape, o, c)
        /\ pass' = [root |-> o, cursor |-> o]
        /\ call' = [op |-> "seed", args |-> <<Ref(o)>>, result |-> Undefined,
                    status |-> "ok", invoked |-> <<>>]

BackwardStep ==
    /\ pass.cursor > 0
    /\ tape' = RunBackward(tape, pass.cursor)
    /\ pass' = [pass EXCEPT
                  !.cursor = Greatest(Below(Reached(tape, pass.root), @))]
    /\ call' = [op |-> "backward", args |-> <<Ref(pass.cursor)>>,
                result |-> Undefined, status |-> "ok",
                invoked |-> Invocations(tape, pass.cursor)]

Init ==
    /\ tape = <<>>
    /\ call = [op |-> "none", args |-> <<>>, result |-> Undefined,
               status |-> "ok", invoked |-> <<>>]
    /\ pass = Idle

Next ==
    \/ Lift
    \/ CallUnary
    \/ CallBinary
    \/ CallSum
    \/ Derivative
    \/ StartBackward
    \/ BackwardStep

Spec == Init /\ [][Next]_vars

(***************************************************************************)
(* The tensor operations: splitting a tensor into scalars and merging      *)
(* scalars into a tensor.                                                  *)
(***************************************************************************)
RawTensors == {Ten(Iota(n)) : n \in 0..MaxLen}

Tensors == RawTensors \cup {r \in Refs : tape[r.id].x.t = "tensor"}

LiftTensor ==
    \E x \in RawTensors :
        Called("lift", <<x>>, lift(tape, x, "t"))

CallTensorToScalars ==
    \E t \in Tensors :
        Called("tensorToScalars", <<t>>, tensorToScalars(tape, t))

CallScalarsToTensor ==
    \E args \in VarArgs(Scalars) :
        Called("scalarsToTensor", args,
               newFunction(tape, "scalarsToTensor", args))

\* scalarsToTensor(tensorToScalars(t))
CallRoundTrip ==
    \E t \in Tensors :
        LET s == tensorToScalars(tape, t)
        IN  Called("roundTrip", <<t>>,
                   newFunction(s.tape, "scalarsToTensor", <<s.result>>))

NextSplit ==
    \/ LiftTensor
    \/ CallTensorToScalars
    \/ CallScalarsToTensor
    \/ CallRoundTrip
    \/ StartBackward
    \/ BackwardStep

SpecSplit == Init /\ [][NextSplit]_vars

(***************************************************************************)
(* The tensor operations: slicing and concatenating.                       *)
(***************************************************************************)
CallRange ==
    \E t \in Tensors :
        \E end \in 0..Length(value(tape, t)) : \E start \in 0..end :
            LET args == <<t, Num(start), Num(end)>>
            IN  Called("tensor.range", args,
                       newFunction(tape, "tensor.range", args))

CallConcat ==
    \E args \in Parts(Tensors) :
        Called("tensor.concat", args, newFunction(tape, "tensor.concat", args))

NextSlice ==
    \/ LiftTensor
    \/ CallRange
    \/ CallConcat
    \/ StartBackward
    \/ BackwardStep

SpecSlice == Init /\ [][NextSlice]_vars

(***************************************************************************)
(* The linear layer's matrix-vector operation.                             *)
(***************************************************************************)
RawMatrices ==
    {Mat(rows, cols, Iota(rows * cols)) : rows \in 1..MaxDim, cols \in 1..MaxDim}

IsMatrix(x) == Len(x.dims) = 2

Matrices ==
    RawMatrices \cup {r \in Refs : tape[r.id].x.t = "tensor" /\ IsMatrix(tape[r.id].x)}

Vectors ==
    RawTensors \cup {r \in Refs : tape[r.id].x.t = "tensor" /\ ~IsMatrix(tape[r.id].x)}

LiftOperand ==
    \E x \in RawMatrices \cup RawTensors :
        Called("lift", <<x>>, lift(tape, x, "linear"))

CallMvmuladd ==
    \E A \in Matrices, x \in Vectors, b \in Vectors :
        Called("mvmuladd", <<A, x, b>>,
               newFunction(tape, "mvmuladd", <<A, x, b>>))

NextLinear ==
    \/ LiftOperand
    \/ CallMvmuladd

SpecLinear == Init /\ [][NextLinear]_vars

(***************************************************************************)
(* Properties.                                                             *)
(***************************************************************************)
UnaryOps == {"scalar.abs"}
BinaryOps == {"scalar.sub", "scalar.mul"}
VariadicOps == {"scalar.sum"}
FactoryOps == UnaryOps \cup BinaryOps \cup VariadicOps

\* No argument is a Node, nor is any element of an Array argument.
NoLifted(args) ==
    \A i \in 1..Len(args) :
        /\ ~isNode(args[i])
        /\ args[i].t = "array" =>
              \A j \in 1..Len(args[i].elems) : ~isNode(args[i].elems[j])

\* The forward formula of a factory-built scalar operation on raw arguments.
RawForward(op, args) ==
    IF op \in UnaryOps THEN forward1(op, args[1])
    ELSE IF op \in BinaryOps THEN forward2(op, args[1], args[2])
    ELSE forward(op, <<>>, args)

Ids(refs) == [i \in 1..Len(refs) |-> refs[i].id]

Reverse(seq) == [i \in 1..Len(seq) |-> seq[Len(seq) + 1 - i]]

\* The lifted arguments of a call, first lifted argument first.
LiftedInOrder(args) == Ids(SelectSeq(ArgList(args), isNode))

\* How often node j occurs among the operands of a variadic call.
Occurrences(args, j) ==
    Cardinality({i \in 1..Len(ArgList(args)) : ArgList(args)[i] = Ref(j)})

\* The node whose backward closure the latest step ran.
Ran(c) == c.args[1].id

\* C1: a call of a factory-built operation with no lifted argument returns
\* the raw result of the forward formula, which is not a Node, and leaves
\* the tape as it was.
C1_ConstantFolding ==
    [][(call'.op \in FactoryOps /\ NoLifted(call'.args)) =>
          /\ tape' = tape
          /\ call'.status = "ok"
          /\ ~isLifted(call'.result)
          /\ call'.result = RawForward(call'.op, call'.args)]_vars

C1_Witness ==
    /\ call.op = "scalar.sum"
    /\ call.args = <<Arr(<<Num(-2), Num(-2)>>)>>
    /\ call.result = Num(-4)
    /\ Len(tape) = 2

\* C3: the backward closure of a scalar.sum node adds the node's dx to the
\* dx of every lifted summand once per occurrence of that summand, on top of
\* what the summand's dx held, and writes nothing else.
C3_SumAccumulates ==
    [][(call'.op = "backward" /\ tape[Ran(call')].name = "scalar.sum") =>
          LET self == tape[Ran(call')] IN
          /\ Len(tape') = Len(tape)
          /\ \A j \in 1..Len(tape) :
                tape'[j] = [tape[j] EXCEPT
                    !.dx = Num(@.n + Occurrences(self.args, j) * self.dx.n)]
      ]_vars

\* A summand whose dx already held a contribution has gained the sum's dx.
C3_Witness ==
    /\ call.op = "backward"
    /\ tape[Ran(call)].name = "scalar.sum"
    /\ tape[Ran(call)].dx.n = 1
    /\ \E j \in 1..Len(tape) :
        /\ Occurrences(tape[Ran(call)].args, j) = 1
        /\ tape[j].dx.n = 2

\* C6: derivative of a raw value fails with an error.
C6_DerivativeOfRawFails ==
    (call.op = "derivative" /\ ~isNode(call.args[1])) => call.status = "error"

\* C8: the node built by a binary operation called as op(x, y) invokes
\* backward1 iff x is a Node and backward2 iff y is a Node, each once,
\* backward1 with (x, the raw value of y) and backward2 with (the raw value
\* of x, y); its forward value is forward(value(x), value(y)).
C8_BinaryDispatch ==
    (call.op \in BinaryOps /\ isNode(call.result)) =>
        LET x == call.args[1]
            y == call.args[2]
            id == call.result.id
            inv == Invocations(tape, id)
            fns == {inv[k].fn : k \in 1..Len(inv)}
        IN  /\ fns \subseteq {"backward1", "backward2"}
            /\ Len(inv) = Cardinality(fns)
            /\ "backward1" \in fns <=> isNode(x)
            /\ "backward2" \in fns <=> isNode(y)
            /\ \A k \in 1..Len(inv) :
                  inv[k].args = IF inv[k].fn = "backward1"
                                THEN <<x, value(tape, y)>>
                                ELSE <<value(tape, x), y>>
            /\ tape[id].x = forward2(call.op, value(tape, x), value(tape, y))

\* op(n, n): the closure holds both formulas, each against the node n.
C8_Witness ==
    /\ call.op = "scalar.mul"
    /\ call.args = <<Ref(1), Ref(1)>>
    /\ isNode(call.result)
    /\ Invocations(tape, call.result.id) =
            <<Invoke("backward1", <<Ref(1), Num(-2)>>),
              Invoke("backward2", <<Num(-2), Ref(1)>>)>>
    /\ tape[call.result.id].x = Num(4)

\* C9, the order read uniformly: the parents of a node are the lifted
\* arguments of the call in argument order, for binary and for variadic
\* operations alike.
C9_ParentsInArgumentOrder ==
    (call.op \in BinaryOps \cup VariadicOps /\ isNode(call.result)) =>
        tape[call.result.id].parents = LiftedInOrder(call.args)

\* C9, the order naryGetParents produces: the parents of a node are exactly
\* the lifted arguments of the call, in argument order for a binary
\* operation and in reverse argument order (last lifted argument first) for
\* a variadic one, in the varargs and in the single-array form.
C9_ParentsOfCall ==
    /\ (call.op \in BinaryOps /\ isNode(call.result)) =>
          tape[call.result.id].parents = LiftedInOrder(call.args)
    /\ (call.op \in VariadicOps /\ isNode(call.result)) =>
          tape[call.result.id].parents = Reverse(LiftedInOrder(call.args))

C9_Witness ==
    /\ call.op = "scalar.sum"
    /\ call.args = <<Arr(<<Ref(1), Num(-2), Ref(2)>>)>>
    /\ isNode(call.result)
    /\ tape[call.result.id].parents = <<2, 1>>

\* C10: the variant a newFunction operation returns depends on the number n
\* of parents alone: the raw output for 0, a unary node for 1, a binary node
\* for 2, an n-ary node above; a node keeps the whole argument list.
C10_ShapeByLiftedCount ==
    call.op \in VariadicOps =>
        LET n == Len(getParents(call.op, call.args)) IN
        IF n = 0 THEN ~isNode(call.result)
        ELSE /\ isNode(call.result)
             /\ tape[call.result.id].shape =
                    IF n = 1 THEN "unary" ELSE IF n = 2 THEN "binary" ELSE "nary"
             /\ Len(tape[call.result.id].parents) = n
             /\ tape[call.result.id].args = call.args

\* Two lifted operands among three: a binary node.
C10_Witness ==
    /\ call.op = "scalar.sum"
    /\ Len(call.args) = 3
    /\ ~isNode(call.args[2])
    /\ isNode(call.result)
    /\ tape[call.result.id].shape = "binary"

\* Node m is the tensor merged from the entries of the lifted tensor t:
\* scalarsToTensor([tensorEntry(t, 0), ..., tensorEntry(t, n - 1)]).
IsRoundTrip(tp, m, t) ==
    /\ tp[t].x.t = "tensor"
    /\ tp[m].name = "scalarsToTensor"
    /\ Len(tp[m].args) = 1
    /\ tp[m].args[1].t = "array"
    /\ LET s == tp[m].args[1].elems IN
        /\ Len(s) = Length(tp[t].x)
        /\ \A i \in 1..Len(s) :
            /\ isNode(s[i])
            /\ tp[s[i].id].name = "tensorEntry"
            /\ tp[s[i].id].args = <<Ref(t), Num(i - 1)>>

\* C2: scalarsToTensor(tensorToScalars(t)) has the length and the values of
\* t; and once a backward pass from the merged node is over, t.dx is the
\* cotangent the merged node was seeded with: all ones for a unit cotangent.
C2_SplitMergeRoundTrip ==
    /\ call.op = "roundTrip" =>
          value(tape, call.result) = value(tape, call.args[1])
    /\ \A m \in 1..Len(tape), t \in 1..Len(tape) :
          IsRoundTrip(tape, m, t) =>
              /\ tape[m].x = tape[t].x
              /\ (pass.root = m /\ pass.cursor = 0) => tape[t].dx = tape[m].dx

C2_Witness ==
    \E m \in 1..Len(tape), t \in 1..Len(tape) :
        /\ IsRoundTrip(tape, m, t)
        /\ tape[t].x = Ten(<<1, 2, 3>>)
        /\ tape[m].x = Ten(<<1, 2, 3>>)
        /\ pass.root = m
        /\ pass.cursor = 0
        /\ tape[m].dx = Ten(<<1, 1, 1>>)
        /\ tape[t].dx = Ten(<<1, 1, 1>>)

\* C4: the backward closure of r = tensor.range(t, start, end) on a lifted
\* t adds r.dx[n] to t.dx[start + n] for every n below end - start, changes
\* no other element of t.dx, and leaves r.dx as it was.
C4_RangeGradient ==
    [][(/\ call'.op = "backward"
        /\ tape[Ran(call')].name = "tensor.range"
        /\ isNode(tape[Ran(call')].args[1])) =>
          LET r == tape[Ran(call')]
              t == r.args[1].id
              start == r.args[2].n
              end == r.args[3].n
          IN  /\ tape'[t].dx.data =
                    [k \in 1..Length(tape[t].dx) |->
                        tape[t].dx.data[k] +
                        (IF k - start \in 1..(end - start)
                         THEN r.dx.data[k - start] ELSE 0)]
              /\ tape'[Ran(call')].dx = r.dx
      ]_vars

\* Where the forward pass of tensor.concat put operand j: the lengths of
\* the operands before it.
RECURSIVE Offset(_, _, _)
Offset(tp, list, j) ==
    IF j = 1 THEN 0
    ELSE Offset(tp, list, j - 1) + Length(value(tp, list[j - 1]))

RECURSIVE SliceSum(_, _, _, _, _)
SliceSum(tp, self, p, k, j) ==
    \* what output self owes element k of node p for its operands 1..j
    IF j = 0 THEN 0
    ELSE LET list == ArgList(tp[self].args) IN
         SliceSum(tp, self, p, k, j - 1) +
         (IF list[j] = Ref(p)
          THEN tp[self].dx.data[Offset(tp, list, j) + k] ELSE 0)

\* C5: the backward closure of a tensor.concat node of two or more operands
\* adds to every lifted operand the slice of the output's dx that lies where
\* the forward pass copied that operand's values.
C5_ConcatGradient ==
    [][(/\ call'.op = "backward"
        /\ tape[Ran(call')].name = "tensor.concat"
        /\ Len(ArgList(tape[Ran(call')].args)) >= 2) =>
          LET self == Ran(call')
              list == ArgList(tape[self].args)
          IN  \A p \in 1..Len(tape) :
                p # self =>
                  tape'[p].dx =
                    IF tape[p].x.t # "tensor" THEN tape[p].dx
                    ELSE [tape[p].dx EXCEPT !.data =
                            [k \in 1..Len(@) |->
                                @[k] + SliceSum(tape, self, p, k, Len(list))]]
      ]_vars

====
